---- MODULE Spec2Model ----
(***************************************************************************)
(* The "Amazons API" backend (src/main.py, src/schemas.py): signup/login,  *)
(* category and product catalog, checkout and seeding over a document      *)
(* store.  Each HTTP handler is one action; the store is four collections  *)
(* kept in insertion order.                                                *)
(*                                                                         *)
(* Conventions                                                             *)
(*  - Optional[T]: None is <<>>, a present value x is <<x>>.               *)
(*  - float amounts (price, total) are integers in cents, rating in tenths *)
(*    of a star; floating-point rounding is not modelled.                  *)
(*  - text searched by $regex (title, description, q) is a sequence of     *)
(*    tokens; regex metacharacters are not modelled.                       *)
(*  - a response is [status, body]; an HTTPException(s, d) is status s     *)
(*    with body [detail |-> d]; an exception the handler does not catch    *)
(*    is the framework's 500 "Internal Server Error".                      *)
(***************************************************************************)
EXTENDS Integers, Sequences, FiniteSets, TLC

VARIABLES
    db,         \* the module-level handle: Some(database) when configured, else None
    user,       \* db["user"], in insertion order
    category,   \* db["category"]
    product,    \* db["product"]
    order,      \* db["order"]
    nextId,     \* the next ObjectId insert_one hands out
    last,       \* the last request served and its response
    inflight,   \* per worker thread: the request it is in the middle of
    serial,     \* TRUE when requests execute one at a time
    begun,      \* history: requests the worker threads have begun
    seedRuns,   \* history: completed seed calls (saturating)
    pristine    \* history: every stored document was written by seed

vars == <<db, user, category, product, order, nextId, last, inflight, serial,
          begun, seedRuns, pristine>>

store == <<user, category, product, order>>

----------------------------------------------------------------------------
(* Bounds of the model *)

MaxUsers == 2
MaxCategories == 2
MaxProducts == 1
MaxOrders == 1
MaxItems == 2
MaxSeedRuns == 2
MaxRequests == 2

----------------------------------------------------------------------------
(* Values *)

None == <<>>
Some(x) == <<x>>

\* Python truthiness of an Optional[str]: None and "" are falsy
Truthy(opt) == opt # None /\ opt[1] # ""

\* len() of the strings the model uses (User.username has a length constraint)
StrLen(s) ==
    CASE s = "" -> 0
      [] s = "al" -> 2
      [] s = "demo" -> 4
      [] s = "alice" -> 5
      [] OTHER -> 8

\* str(ObjectId) and ObjectId(str): an id n prints as a string, and only
\* strings printed from an id parse back
MaxId == 40
ObjectIds == 0..MaxId
StrOfId(oid) == ToString(oid)
IsObjectIdStr(s) == \E n \in ObjectIds : StrOfId(n) = s
ObjectId(s) == CHOOSE n \in ObjectIds : StrOfId(n) = s

\* passlib bcrypt: hash draws a salt, verify recomputes with the stored salt
Salts == {"s1"}
BcryptHash(password, salt) == [salt |-> salt, digest |-> <<salt, password>>]
BcryptVerify(password, h) == h.digest = <<h.salt, password>>

----------------------------------------------------------------------------
(* Document store: filters, find_one, insert_one *)

\* a filter document {f1: v1, ...} matches the documents equal on every field
\* it names; the empty filter {} names none and matches every document
EmptyFilter == <<>>
Matches(doc, filt) == \A f \in DOMAIN filt : doc[f] = filt[f]

\* {"$or": [c1, c2, ...]}
MatchesOr(doc, clauses) == \E i \in DOMAIN clauses : Matches(doc, clauses[i])

\* find: positions of the documents of coll that match, in natural order
Find(coll, filt) == {i \in DOMAIN coll : Matches(coll[i], filt)}
FindOr(coll, clauses) == {i \in DOMAIN coll : MatchesOr(coll[i], clauses)}

Min(S) == CHOOSE x \in S : \A y \in S : x <= y

\* the first of the matching documents, or None
First(coll, hits) == IF hits = {} THEN None ELSE Some(coll[Min(hits)])

\* find_one
FindOne(coll, filt) == First(coll, Find(coll, filt))

\* insert_one: appends the document under a fresh _id
WithId(doc, oid) ==
    [f \in DOMAIN doc \cup {"_id"} |-> IF f = "_id" THEN oid ELSE doc[f]]

Response(status, body) == [status |-> status, body |-> body]
HTTPException(status, detail) == Response(status, [detail |-> detail])
InternalServerError == HTTPException(500, "Internal Server Error")
NotConfigured == HTTPException(500, "Database not configured")

Served(op, req, resp) ==
    [op |-> op, req |-> req, status |-> resp.status, body |-> resp.body]

----------------------------------------------------------------------------
(* Schemas (src/schemas.py) *)

UsernameMinLen == 3
UsernameMaxLen == 32

\* User(...): raises ValidationError unless 3 <= len(username) <= 32
UserValid(username) ==
    StrLen(username) >= UsernameMinLen /\ StrLen(username) <= UsernameMaxLen

User(username, email, phone, password_hash, name) ==
    [username |-> username, email |-> email, phone |-> phone,
     password_hash |-> password_hash, name |-> name,
     is_active |-> TRUE, is_admin |-> FALSE]

----------------------------------------------------------------------------
(* Request payloads the model draws from *)

Usernames == {"", "al", "alice", "demo"}
Passwords == {"", "demo123", "hunter2"}
NewPasswords == {"", "hunter2"}
Emails == {None, Some("a@x.io"), Some("demo@example.com")}
Phones == {None, Some("+15551234567"), Some("+15557654321")}
PersonNames == {Some("Al")}

\* class SignupRequest
SignupRequests ==
    [username : Usernames, password : NewPasswords, email : Emails,
     phone : Phones, name : PersonNames]

\* class LoginRequest
LoginRequests ==
    [username : {None, Some("alice"), Some("demo")},
     phone : Phones \cup {Some("")}, password : Passwords]

----------------------------------------------------------------------------
(* Auth endpoints *)

\* faulty variant: the existence check looks at the username alone
SignupClausesUsernameOnly(payload) == << [username |-> payload.username] >>

\* the $or of signup's existence check: an absent phone or email contributes
\* the empty filter {}
SignupClauses(payload) ==
    << [username |-> payload.username],
       IF Truthy(payload.phone) THEN [phone |-> payload.phone] ELSE EmptyFilter,
       IF Truthy(payload.email) THEN [email |-> payload.email] ELSE EmptyFilter >>

SignupExisting(coll, payload) ==
    First(coll, FindOr(coll, SignupClauses(payload)))

\* faulty variant: signup without the existence check
SignupCheckNoLookup(payload) ==
    IF db = None THEN Some(NotConfigured)
    ELSE IF payload.username = "" \/ payload.password = ""
         THEN Some(HTTPException(400, "Username and password required"))
    ELSE IF ~UserValid(payload.username) THEN Some(InternalServerError)
    ELSE None

\* signup up to (not including) the insert: the response it ends with, or
\* None when it goes on to insert
SignupCheck(payload) ==
    IF db = None THEN Some(NotConfigured)
    ELSE IF payload.username = "" \/ payload.password = ""
         THEN Some(HTTPException(400, "Username and password required"))
    ELSE IF SignupExisting(user, payload) # None
         THEN Some(HTTPException(409, "Account already exists"))
    ELSE IF ~UserValid(payload.username) THEN Some(InternalServerError)
    ELSE None

SignupDoc(payload, salt) ==
    User(payload.username, payload.email, payload.phone,
         BcryptHash(payload.password, salt), payload.name)

SignupOk(payload, oid) ==
    Response(200, [id |-> StrOfId(oid), username |-> payload.username])

Signup(payload) ==
    /\ SignupCheck(payload) = None => Len(user) < MaxUsers /\ nextId < MaxId
    /\ IF SignupCheck(payload) # None
       THEN /\ last' = Served("signup", payload, SignupCheck(payload)[1])
            /\ UNCHANGED <<user, nextId, pristine>>
       ELSE \E salt \in Salts :
            /\ user' = Append(user, WithId(SignupDoc(payload, salt), nextId))
            /\ nextId' = nextId + 1
            /\ pristine' = FALSE
            /\ last' = Served("signup", payload, SignupOk(payload, nextId))
    /\ UNCHANGED <<db, category, product, order, inflight, serial, begun, seedRuns>>

\* faulty variant: the query keeps one identifier: the username, else the phone
LoginQueryFirstGiven(payload) ==
    IF Truthy(payload.username) THEN [username |-> payload.username[1]]
    ELSE IF Truthy(payload.phone) THEN [phone |-> payload.phone]
    ELSE EmptyFilter

\* login's query: every identifier supplied, ANDed
LoginQuery(payload) ==
    [f \in {g \in {"username", "phone"} : Truthy(payload[g])} |->
        IF f = "username" THEN payload.username[1] ELSE payload.phone]

LoginUser(coll, payload) == FindOne(coll, LoginQuery(payload))

LoginResponse(payload) ==
    IF db = None THEN NotConfigured
    ELSE IF payload.password = "" THEN HTTPException(400, "Password required")
    ELSE IF DOMAIN LoginQuery(payload) = {}
         THEN HTTPException(400, "Provide username or phone")
    ELSE LET found == LoginUser(user, payload)
         IN  IF found = None \/ ~BcryptVerify(payload.password, found[1].password_hash)
             THEN HTTPException(401, "Invalid credentials")
             ELSE Response(200, [id |-> StrOfId(found[1]._id),
                                 username |-> found[1].username,
                                 name |-> found[1].name])

Login(payload) ==
    /\ last' = Served("login", payload, LoginResponse(payload))
    /\ UNCHANGED <<db, user, category, product, order, nextId, inflight,
                   serial, begun, seedRuns, pristine>>

----------------------------------------------------------------------------
(* Text: a string searched by $regex is a sequence of tokens *)

Lower(tok) ==
    CASE tok = "Headphones" -> "headphones"
      [] tok = "STAND" -> "stand"
      [] tok = "Stand" -> "stand"
      [] tok = "Smartphone" -> "smartphone"
      [] tok = "Noise-Canceling" -> "noise-canceling"
      [] tok = "Bestselling" -> "bestselling"
      [] tok = "Novel" -> "novel"
      [] tok = "Cozy" -> "cozy"
      [] tok = "Throw" -> "throw"
      [] tok = "Blanket" -> "blanket"
      [] tok = "Classic" -> "classic"
      [] tok = "T-Shirt" -> "t-shirt"
      [] tok = "Over-ear" -> "over-ear"
      [] tok = "Bluetooth" -> "bluetooth"
      [] tok = "Adjustable" -> "adjustable"
      [] tok = "Paperback" -> "paperback"
      [] tok = "Ultra-soft" -> "ultra-soft"
      [] tok = "Desk" -> "desk"
      [] tok = "Lamp" -> "lamp"
      [] OTHER -> tok

LowerText(t) == [i \in DOMAIN t |-> Lower(t[i])]

\* {"$regex": q, "$options": "i"} on a string field: q occurs in it, case
\* folded; a null field never matches
RegexI(field, q) ==
    /\ field # None
    /\ \E i \in 0..(Len(field[1]) - Len(q)) :
          SubSeq(LowerText(field[1]), i + 1, i + Len(q)) = LowerText(q)

----------------------------------------------------------------------------
(* Schemas, continued *)

DefaultRating == 45
DefaultRatingCount == 0

\* Product(...): raises ValidationError unless price >= 0
ProductValid(p) == p.price >= 0

Product(p) ==
    [title |-> p.title, description |-> p.description, price |-> p.price,
     category |-> p.category, image |-> p.image,
     rating |-> Some(DefaultRating), rating_count |-> Some(DefaultRatingCount),
     in_stock |-> TRUE]

\* Order(...): OrderItem and Order carry no constraint
Order(user_id, items, total, address) ==
    [user_id |-> user_id, items |-> items, total |-> total,
     address |-> address, status |-> "placed"]

\* to_str_id: _id is dropped and id = str(_id) added
ToStrId(doc) ==
    [f \in (DOMAIN doc \ {"_id"}) \cup {"id"} |->
        IF f = "id" THEN StrOfId(doc._id) ELSE doc[f]]

----------------------------------------------------------------------------
(* Catalog endpoints *)

CategoryNames == {"Electronics", "Toys"}
Slugs == {"electronics", "toys"}

\* class CreateCategory
CategoryRequests == [name : CategoryNames, slug : Slugs]

Titles == {<<"Smartphone", "Stand">>, <<"Desk", "Lamp">>}
Descriptions == {None, Some(<<"Adjustable", "headphones", "STAND">>)}
Prices == {-100, 1999}
Categories == {"", "Electronics"}

\* class CreateProduct
ProductRequests ==
    [title : Titles, description : Descriptions, price : Prices,
     category : Categories, image : {None}]

Queries == {None, Some(<<>>), Some(<<"Headphones">>), Some(<<"desk", "STAND">>)}
Limits == {0, 1, 20}
Skips == {0, 1}

\* the query parameters of GET /products
ListRequests ==
    [q : Queries, category : {None} \cup {Some(c) : c \in Categories},
     limit : Limits, skip : Skips]

ListCategoriesResponse ==
    Response(200, IF db # None THEN [i \in DOMAIN category |-> ToStrId(category[i])]
                  ELSE <<>>)

ListCategories ==
    /\ last' = Served("listCategories", None, ListCategoriesResponse)
    /\ UNCHANGED <<db, user, category, product, order, nextId, inflight,
                   serial, begun, seedRuns, pristine>>

\* faulty variant: the slug lookup finds nothing
SlugNeverExists(coll, slug) == FALSE

SlugExists(coll, slug) == FindOne(coll, [slug |-> slug]) # None

\* create_category up to the insert: its response, or None when it inserts
CreateCategoryCheck(payload) ==
    IF db = None THEN Some(NotConfigured)
    ELSE IF SlugExists(category, payload.slug)
         THEN Some(HTTPException(409, "Category exists"))
    ELSE None

CreateCategory(payload) ==
    /\ CreateCategoryCheck(payload) = None =>
           Len(category) < MaxCategories /\ nextId < MaxId
    /\ IF CreateCategoryCheck(payload) # None
       THEN /\ last' = Served("createCategory", payload,
                              CreateCategoryCheck(payload)[1])
            /\ UNCHANGED <<category, nextId, pristine>>
       ELSE /\ category' = Append(category, WithId(payload, nextId))
            /\ nextId' = nextId + 1
            /\ pristine' = FALSE
            /\ last' = Served("createCategory", payload,
                              Response(200, [id |-> StrOfId(nextId)]))
    /\ UNCHANGED <<db, user, product, order, inflight, serial, begun, seedRuns>>

\* faulty variant: the category filter is dropped
ListFilterQOnly(doc, req) ==
    (req.q # None /\ req.q[1] # <<>>) =>
        RegexI(Some(doc.title), req.q[1]) \/ RegexI(doc.description, req.q[1])

\* the filter list_products builds: q and category, each only when truthy
ListFilter(doc, req) ==
    /\ (req.q # None /\ req.q[1] # <<>>) =>
           RegexI(Some(doc.title), req.q[1]) \/ RegexI(doc.description, req.q[1])
    /\ Truthy(req.category) => doc.category = req.category[1]

\* the documents of coll at the positions in S, in order
RECURSIVE Select(_, _)
Select(coll, S) ==
    IF coll = <<>> THEN <<>>
    ELSE LET rest == Select(Tail(coll), {i - 1 : i \in S \ {1}})
         IN  IF 1 \in S THEN <<Head(coll)>> \o rest ELSE rest

\* cursor.skip(k)
Skip(docs, k) == SubSeq(docs, k + 1, Len(docs))

\* cursor.limit(n): a limit of 0 is no limit
Limit(docs, n) == IF n = 0 \/ n >= Len(docs) THEN docs ELSE SubSeq(docs, 1, n)

ListProductsResult(coll, req) ==
    LET hits == {i \in DOMAIN coll : ListFilter(coll[i], req)}
        cursor == Limit(Skip(Select(coll, hits), req.skip), req.limit)
    IN  [i \in DOMAIN cursor |-> ToStrId(cursor[i])]

ListProductsResponse(req) ==
    Response(200, IF db = None THEN <<>> ELSE ListProductsResult(product, req))

ListProducts(req) ==
    /\ last' = Served("listProducts", req, ListProductsResponse(req))
    /\ UNCHANGED <<db, user, category, product, order, nextId, inflight,
                   serial, begun, seedRuns, pristine>>

ProductById(coll, oid) == FindOne(coll, [_id |-> oid])

GetProductResponse(product_id) ==
    IF ~IsObjectIdStr(product_id) THEN HTTPException(400, "Invalid id")
    ELSE LET prod == IF db # None THEN ProductById(product, ObjectId(product_id))
                     ELSE None
         IN  IF prod = None THEN HTTPException(404, "Not found")
             ELSE Response(200, ToStrId(prod[1]))

\* ids a client may ask for: junk, every id handed out, and one never handed out
ProductIdStrs == {"", "not-an-id"} \cup {StrOfId(n) : n \in 0..nextId}

GetProduct(product_id) ==
    /\ last' = Served("getProduct", product_id, GetProductResponse(product_id))
    /\ UNCHANGED <<db, user, category, product, order, nextId, inflight,
                   serial, begun, seedRuns, pristine>>

CreateProductResponse(payload, oid) ==
    IF db = None THEN NotConfigured
    ELSE IF ~ProductValid(payload) THEN InternalServerError
    ELSE Response(200, [id |-> StrOfId(oid)])

CreateProduct(payload) ==
    LET resp == CreateProductResponse(payload, nextId)
    IN  /\ resp.status = 200 => Len(product) < MaxProducts /\ nextId < MaxId
        /\ last' = Served("createProduct", payload, resp)
        /\ IF resp.status = 200
           THEN /\ product' = Append(product, WithId(Product(payload), nextId))
                /\ nextId' = nextId + 1
                /\ pristine' = FALSE
           ELSE UNCHANGED <<product, nextId, pristine>>
        /\ UNCHANGED <<db, user, category, order, inflight, serial, begun, seedRuns>>

----------------------------------------------------------------------------
(* Orders *)

OrderItem(price, quantity) ==
    [product_id |-> "0", title |-> "Smartphone Stand", price |-> price,
     quantity |-> quantity, image |-> None]

ItemPool ==
    {OrderItem(1000, 2), OrderItem(500, 1), OrderItem(-500, 1), OrderItem(500, -1)}

RECURSIVE SeqsUpTo(_, _)
SeqsUpTo(S, n) ==
    IF n = 0 THEN {<<>>}
    ELSE LET shorter == SeqsUpTo(S, n - 1)
         IN  shorter \cup {Append(q, x) : q \in shorter, x \in S}

\* class CheckoutRequest
CheckoutRequests ==
    [user_id : {"0", "nobody"}, items : SeqsUpTo(ItemPool, MaxItems),
     address : {"", "1 Main St"}]

\* faulty variant: the total adds the prices and ignores the quantities
RECURSIVE TotalOfPrices(_)
TotalOfPrices(items) ==
    IF items = <<>> THEN 0 ELSE Head(items).price + TotalOfPrices(Tail(items))

\* sum(item.price * item.quantity for item in payload.items)
RECURSIVE Total(_)
Total(items) ==
    IF items = <<>> THEN 0
    ELSE Head(items).price * Head(items).quantity + Total(Tail(items))

CheckoutDoc(payload) ==
    Order(payload.user_id, payload.items, Total(payload.items), payload.address)

\* faulty variant: checkout without the database check
CheckoutResponseUnguarded(payload, oid) ==
    Response(200, [order_id |-> StrOfId(oid), total |-> Total(payload.items),
                   status |-> "placed"])

CheckoutResponse(payload, oid) ==
    IF db = None THEN NotConfigured
    ELSE Response(200, [order_id |-> StrOfId(oid), total |-> Total(payload.items),
                        status |-> "placed"])

Checkout(payload) ==
    LET resp == CheckoutResponse(payload, nextId)
    IN  /\ resp.status = 200 => Len(order) < MaxOrders /\ nextId < MaxId
        /\ last' = Served("checkout", payload, resp)
        /\ IF resp.status = 200
           THEN /\ order' = Append(order, WithId(CheckoutDoc(payload), nextId))
                /\ nextId' = nextId + 1
                /\ pristine' = FALSE
           ELSE UNCHANGED <<order, nextId, pristine>>
        /\ UNCHANGED <<db, user, category, product, inflight, serial, begun, seedRuns>>

----------------------------------------------------------------------------
(* Seed data *)

base_categories ==
    << [name |-> "Electronics", slug |-> "electronics"],
       [name |-> "Books", slug |-> "books"],
       [name |-> "Home", slug |-> "home"],
       [name |-> "Fashion", slug |-> "fashion"] >>

SampleProduct(title, description, price, cat, image) ==
    [title |-> title, description |-> Some(description), price |-> price,
     category |-> cat, image |-> Some(image)]

sample_products ==
    << SampleProduct(<<"Noise-Canceling", "Headphones">>,
                     <<"Over-ear,", "Bluetooth", "5.3,", "30h", "battery">>,
                     12999, "Electronics",
                     "https://images.unsplash.com/photo-1517495306984-937bcd3c5b86"),
       SampleProduct(<<"Smartphone", "Stand">>,
                     <<"Adjustable", "aluminum", "desk", "stand">>,
                     1999, "Electronics",
                     "https://images.unsplash.com/photo-1510557880182-3d4d3cba35a5"),
       SampleProduct(<<"Bestselling", "Novel">>,
                     <<"Paperback,", "352", "pages">>,
                     1249, "Books",
                     "https://images.unsplash.com/photo-1512820790803-83ca734da794"),
       SampleProduct(<<"Cozy", "Throw", "Blanket">>,
                     <<"Ultra-soft", "microfiber,", "50x60">>,
                     2495, "Home",
                     "https://images.unsplash.com/photo-1499933374294-4584851497cc"),
       SampleProduct(<<"Classic", "T-Shirt">>,
                     <<"100%", "cotton,", "unisex", "fit">>,
                     1499, "Fashion",
                     "https://images.unsplash.com/photo-1512436991641-6745cdb1723f") >>

DemoUser(salt) ==
    User("demo", Some("demo@example.com"), None, BcryptHash("demo123", salt),
         Some("Demo User"))

\* what seed works through, in order: the collection, the field it looks an
\* equivalent record up by, and the document it inserts when there is none
SeedWork(salt) ==
    [i \in 1..Len(base_categories) |->
        [coll |-> "category", key |-> "slug", doc |-> base_categories[i]]]
    \o [i \in 1..Len(sample_products) |->
        [coll |-> "product", key |-> "title", doc |-> Product(sample_products[i])]]
    \o << [coll |-> "user", key |-> "username", doc |-> DemoUser(salt)] >>

\* faulty variant: seed's lookup finds nothing
SeedNeverPresent(st, item) == FALSE

\* one item of seed's work: find_one on the key ...
SeedPresent(st, item) ==
    FindOne(st[item.coll], [f \in {item.key} |-> item.doc[item.key]]) # None

\* ... and insert_one when it finds nothing
SeedPut(st, item) ==
    [st EXCEPT ![item.coll] = Append(@, WithId(item.doc, st.next)),
               !.next = @ + 1]

\* the three loops of seed, run to the end over st = [category, product, user, next]
RECURSIVE SeedFrom(_, _)
SeedFrom(st, work) ==
    IF work = <<>> THEN st
    ELSE IF SeedPresent(st, Head(work)) THEN SeedFrom(st, Tail(work))
    ELSE SeedFrom(SeedPut(st, Head(work)), Tail(work))

SeedState ==
    [category |-> category, product |-> product, user |-> user, next |-> nextId]

SeedResult(salt) == SeedFrom(SeedState, SeedWork(salt))

Bump(n) == IF n < MaxSeedRuns THEN n + 1 ELSE n

Seed ==
    IF db = None
    THEN /\ last' = Served("seed", None, NotConfigured)
         /\ UNCHANGED <<db, user, category, product, order, nextId, inflight,
                        serial, begun, seedRuns, pristine>>
    ELSE \E salt \in Salts :
         LET st == SeedResult(salt)
         IN  /\ nextId + Len(SeedWork(salt)) <= MaxId
             /\ category' = st.category
             /\ product' = st.product
             /\ user' = st.user
             /\ nextId' = st.next
             /\ seedRuns' = Bump(seedRuns)
             /\ last' = Served("seed", None, Response(200, [status |-> "seeded"]))
             /\ UNCHANGED <<db, order, inflight, serial, begun, pristine>>

----------------------------------------------------------------------------
(* Worker threads: a handler's find_one and its insert_one are separate     *)
(* steps, and another worker's steps may fall between them                  *)

Workers == {"w1", "w2"}
Idle == [op |-> "idle"]
MayBegin(w) ==
    /\ inflight[w] = Idle
    /\ begun < MaxRequests
    /\ serial => \A v \in Workers : inflight[v] = Idle

Pending(op) == Cardinality({w \in Workers : inflight[w].op = op})

FewSignupRequests ==
    [username : {"alice", "demo"}, password : {"hunter2"},
     email : {None}, phone : {None}, name : {None}]

FewProductRequests ==
    [title : Titles, description : {None}, price : {1999},
     category : {"Electronics"}, image : {None}]

FewCategoryRequests == [name : {"Electronics"}, slug : {"electronics", "toys"}]

SignupBegin(w, payload) ==
    /\ MayBegin(w)
    /\ SignupCheck(payload) = None =>
           Len(user) + Pending("signup") < MaxUsers /\ nextId < MaxId
    /\ IF SignupCheck(payload) # None
       THEN /\ last' = Served("signup", payload, SignupCheck(payload)[1])
            /\ UNCHANGED inflight
       ELSE /\ inflight' = [inflight EXCEPT ![w] = [op |-> "signup", req |-> payload]]
            /\ UNCHANGED last
    /\ begun' = begun + 1
    /\ UNCHANGED <<db, user, category, product, order, nextId, serial,
                   seedRuns, pristine>>

SignupInsert(w) ==
    /\ inflight[w].op = "signup"
    /\ \E salt \in Salts :
          user' = Append(user, WithId(SignupDoc(inflight[w].req, salt), nextId))
    /\ nextId' = nextId + 1
    /\ pristine' = FALSE
    /\ last' = Served("signup", inflight[w].req, SignupOk(inflight[w].req, nextId))
    /\ inflight' = [inflight EXCEPT ![w] = Idle]
    /\ UNCHANGED <<db, category, product, order, serial, begun, seedRuns>>

CreateCategoryBegin(w, payload) ==
    /\ MayBegin(w)
    /\ CreateCategoryCheck(payload) = None =>
           Len(category) + Pending("createCategory") < MaxCategories
           /\ nextId < MaxId
    /\ IF CreateCategoryCheck(payload) # None
       THEN /\ last' = Served("createCategory", payload,
                              CreateCategoryCheck(payload)[1])
            /\ UNCHANGED inflight
       ELSE /\ inflight' = [inflight EXCEPT
                               ![w] = [op |-> "createCategory", req |-> payload]]
            /\ UNCHANGED last
    /\ begun' = begun + 1
    /\ UNCHANGED <<db, user, category, product, order, nextId, serial,
                   seedRuns, pristine>>

CreateCategoryInsert(w) ==
    /\ inflight[w].op = "createCategory"
    /\ category' = Append(category, WithId(inflight[w].req, nextId))
    /\ nextId' = nextId + 1
    /\ pristine' = FALSE
    /\ last' = Served("createCategory", inflight[w].req,
                      Response(200, [id |-> StrOfId(nextId)]))
    /\ inflight' = [inflight EXCEPT ![w] = Idle]
    /\ UNCHANGED <<db, user, product, order, serial, begun, seedRuns>>

\* seed: at = the item of SeedWork it is at, found = "?" before that item's
\* find_one, "absent" between a find_one that found nothing and the insert_one
SeedBegin(w) ==
    /\ MayBegin(w)
    /\ IF db = None
       THEN /\ last' = Served("seed", None, NotConfigured)
            /\ UNCHANGED inflight
       ELSE /\ \E salt \in Salts :
                 /\ nextId + Len(SeedWork(salt)) * Cardinality(Workers) <= MaxId
                 /\ inflight' = [inflight EXCEPT ![w] =
                        [op |-> "seed", at |-> 1, found |-> "?", salt |-> salt]]
            /\ UNCHANGED last
    /\ begun' = begun + 1
    /\ UNCHANGED <<db, user, category, product, order, nextId, serial,
                   seedRuns, pristine>>

SeedFind(w) ==
    /\ inflight[w].op = "seed"
    /\ inflight[w].found = "?"
    /\ inflight[w].at <= Len(SeedWork(inflight[w].salt))
    /\ LET item == SeedWork(inflight[w].salt)[inflight[w].at]
       IN  inflight' = [inflight EXCEPT ![w] =
              IF SeedPresent(SeedState, item) THEN [@ EXCEPT !.at = @ + 1]
              ELSE [@ EXCEPT !.found = "absent"]]
    /\ UNCHANGED <<db, user, category, product, order, nextId, last, serial,
                   begun, seedRuns, pristine>>

SeedInsert(w) ==
    /\ inflight[w].op = "seed"
    /\ inflight[w].found = "absent"
    /\ LET item == SeedWork(inflight[w].salt)[inflight[w].at]
           st == SeedPut(SeedState, item)
       IN  /\ category' = st.category
           /\ product' = st.product
           /\ user' = st.user
           /\ nextId' = st.next
    /\ inflight' = [inflight EXCEPT ![w] = [@ EXCEPT !.at = @ + 1, !.found = "?"]]
    /\ UNCHANGED <<db, order, last, serial, begun, seedRuns, pristine>>

SeedReturn(w) ==
    /\ inflight[w].op = "seed"
    /\ inflight[w].found = "?"
    /\ inflight[w].at > Len(SeedWork(inflight[w].salt))
    /\ inflight' = [inflight EXCEPT ![w] = Idle]
    /\ seedRuns' = Bump(seedRuns)
    /\ last' = Served("seed", None, Response(200, [status |-> "seeded"]))
    /\ UNCHANGED <<db, user, category, product, order, nextId, serial, begun,
                   pristine>>

----------------------------------------------------------------------------
(* Specifications *)

NoRequest == [op |-> "none", req |-> None, status |-> 0, body |-> None]

Init ==
    /\ db \in {None, Some("mongodb")}
    /\ user = <<>>
    /\ category = <<>>
    /\ product = <<>>
    /\ order = <<>>
    /\ nextId = 0
    /\ last = NoRequest
    /\ inflight = [w \in Workers |-> Idle]
    /\ serial = TRUE
    /\ begun = 0
    /\ seedRuns = 0
    /\ pristine = TRUE

\* the auth endpoints and seed
NextAuth ==
    \/ \E payload \in SignupRequests : Signup(payload)
    \/ \E payload \in LoginRequests : Login(payload)
    \/ Seed

SpecAuth == Init /\ [][NextAuth]_vars

\* the category endpoints and seed
NextCategory ==
    \/ \E payload \in CategoryRequests : CreateCategory(payload)
    \/ ListCategories
    \/ Seed

SpecCategory == Init /\ [][NextCategory]_vars

\* the product endpoints and seed
NextProduct ==
    \/ \E payload \in ProductRequests : CreateProduct(payload)
    \/ \E req \in ListRequests : ListProducts(req)
    \/ \E product_id \in ProductIdStrs : GetProduct(product_id)
    \/ Seed

SpecProduct == Init /\ [][NextProduct]_vars

\* checkout alone
NextCheckout == \E payload \in CheckoutRequests : Checkout(payload)

SpecCheckout == Init /\ [][NextCheckout]_vars

\* checkout, with the product writers
NextOrder ==
    \/ \E payload \in CheckoutRequests : Checkout(payload)
    \/ \E payload \in ProductRequests : CreateProduct(payload)
    \/ Seed

SpecOrder == Init /\ [][NextOrder]_vars

\* seed among the other writers of the collections it fills
NextSeed ==
    \/ Seed
    \/ \E payload \in FewSignupRequests : Signup(payload)
    \/ \E payload \in FewCategoryRequests : CreateCategory(payload)
    \/ \E payload \in FewProductRequests : CreateProduct(payload)

SpecSeed == Init /\ [][NextSeed]_vars

\* every endpoint, one request at a time
Next ==
    \/ \E payload \in SignupRequests : Signup(payload)
    \/ \E payload \in LoginRequests : Login(payload)
    \/ ListCategories
    \/ \E payload \in CategoryRequests : CreateCategory(payload)
    \/ \E req \in ListRequests : ListProducts(req)
    \/ \E product_id \in ProductIdStrs : GetProduct(product_id)
    \/ \E payload \in ProductRequests : CreateProduct(payload)
    \/ \E payload \in CheckoutRequests : Checkout(payload)
    \/ Seed

Spec == Init /\ [][Next]_vars

\* every endpoint, with the database handle not configured
InitUnconfigured ==
    /\ db = None
    /\ user = <<>>
    /\ category = <<>>
    /\ product = <<>>
    /\ order = <<>>
    /\ nextId = 0
    /\ last = NoRequest
    /\ inflight = [w \in Workers |-> Idle]
    /\ serial = TRUE
    /\ begun = 0
    /\ seedRuns = 0
    /\ pristine = TRUE

SpecUnconfigured == InitUnconfigured /\ [][Next]_vars

\* signup, createCategory and seed on worker threads, interleaved or
\* (serial) one request at a time
InitConc ==
    /\ db = Some("mongodb")
    /\ user = <<>>
    /\ category = <<>>
    /\ product = <<>>
    /\ order = <<>>
    /\ nextId = 0
    /\ last = NoRequest
    /\ inflight = [w \in Workers |-> Idle]
    /\ serial \in BOOLEAN
    /\ begun = 0
    /\ seedRuns = 0
    /\ pristine = TRUE

NextConc ==
    \E w \in Workers :
        \/ \E payload \in FewSignupRequests : SignupBegin(w, payload)
        \/ SignupInsert(w)
        \/ \E payload \in FewCategoryRequests : CreateCategoryBegin(w, payload)
        \/ CreateCategoryInsert(w)
        \/ SeedBegin(w)
        \/ SeedFind(w)
        \/ SeedInsert(w)
        \/ SeedReturn(w)

SpecConc == InitConc /\ [][NextConc]_vars

----------------------------------------------------------------------------
(* Properties *)

Configured == db # None

\* a signup payload that passes validation: non-empty username and password,
\* and a username the User schema accepts
ValidSignup(p) == p.username # "" /\ p.password # "" /\ UserValid(p.username)

\* usernames differ, and phones and emails differ wherever both supply one
Differ(a, b) ==
    /\ a.username # b.username
    /\ (a.phone # None /\ b.phone # None) => a.phone # b.phone
    /\ (a.email # None /\ b.email # None) => a.email # b.email

\* C1: two valid signups, run one after the other on a fresh store, both
\* succeed and return distinct ids whenever their usernames differ and their
\* phones and emails differ where supplied (payloads without phone or email
\* included).
C1_TwoSignupsSucceed ==
    [][(/\ Configured
        /\ last.op = "signup" /\ last.status = 200 /\ Len(user) = 1
        /\ last'.op = "signup" /\ Signup(last'.req)
        /\ ValidSignup(last'.req) /\ Differ(last.req, last'.req))
       => (last'.status = 200 /\ last'.body.id # last.body.id)]_vars

\* some stored user has p's username, p's non-empty phone or p's non-empty email
Duplicates(p, coll) ==
    \E i \in DOMAIN coll :
        \/ coll[i].username = p.username
        \/ Truthy(p.phone) /\ coll[i].phone = p.phone
        \/ Truthy(p.email) /\ coll[i].email = p.email

\* C2 as stated: every signup that duplicates a stored username, non-empty
\* phone or non-empty email fails with 409 and leaves the user collection as
\* it was.
C2_DuplicateAlways409 ==
    [][(last'.op = "signup" /\ Signup(last'.req) /\ Duplicates(last'.req, user))
       => (last'.status = 409 /\ user' = user)]_vars

\* C2 as amended: a signup with a non-empty username and a non-empty password
\* that duplicates a stored username, non-empty phone or non-empty email fails
\* with 409 and leaves the user collection as it was.
C2_DuplicateSignup409 ==
    [][(/\ last'.op = "signup" /\ Signup(last'.req)
        /\ last'.req.username # "" /\ last'.req.password # ""
        /\ Duplicates(last'.req, user))
       => (last'.status = 409 /\ user' = user)]_vars

\* a signup was refused with 409 for its phone alone: its username is new
C2_Witness ==
    /\ last.op = "signup" /\ last.status = 409
    /\ \A i \in DOMAIN user : user[i].username # last.req.username
    /\ \E i \in DOMAIN user : Truthy(last.req.phone) /\ user[i].phone = last.req.phone
    /\ Truthy(last.req.email)
    /\ \A i \in DOMAIN user : user[i].email # last.req.email

\* a stored user matches every identifier the login supplies (non-empty ones)
\* and its hash verifies the password
Authenticates(req, coll) ==
    \E i \in DOMAIN coll :
        /\ Truthy(req.username) => coll[i].username = req.username[1]
        /\ Truthy(req.phone) => coll[i].phone = req.phone
        /\ BcryptVerify(req.password, coll[i].password_hash)

LoginApplies(req) ==
    Configured /\ req.password # "" /\ (Truthy(req.username) \/ Truthy(req.phone))

C3_Outcome ==
    (last.op = "login" /\ LoginApplies(last.req)) =>
        /\ last.status = 200 <=> Authenticates(last.req, user)
        /\ last.status # 200 =>
               last.status = 401 /\ last.body = [detail |-> "Invalid credentials"]

C3_Frame == [][last'.op = "login" /\ Login(last'.req) => store' = store]_vars

\* C3: with the database configured, a login with a non-empty password and at
\* least one non-empty identifier succeeds exactly when a stored user matches
\* every identifier supplied and its hash verifies the password; every other
\* such login fails with the one 401 "Invalid credentials"; login never
\* changes the store.
C3_LoginIffAuthenticates == []C3_Outcome /\ C3_Frame

\* a login that names a stored user by username and by phone, with that
\* user's password, and a second stored user beside it
C3_Witness ==
    /\ last.op = "login" /\ last.status = 200
    /\ Truthy(last.req.username) /\ Truthy(last.req.phone)
    /\ Len(user) >= 2

\* a login refused although the username is stored: the password is wrong
C3_WitnessRefused ==
    /\ last.op = "login" /\ last.status = 401
    /\ \E i \in DOMAIN user : Truthy(last.req.username)
                              /\ user[i].username = last.req.username[1]

\* the sum over the lines of price times quantity, by position
RECURSIVE LineSum(_, _)
LineSum(items, n) ==
    IF n = 0 THEN 0 ELSE LineSum(items, n - 1) + items[n].price * items[n].quantity

C4_Stored ==
    \A i \in DOMAIN order :
        /\ order[i].total = LineSum(order[i].items, Len(order[i].items))
        /\ order[i].status = "placed"

C4_Step ==
    [][(Configured /\ last'.op = "checkout" /\ Checkout(last'.req)) =>
        LET req == last'.req
            sum == LineSum(req.items, Len(req.items))
        IN  /\ last'.status = 200
            /\ last'.body.total = sum /\ last'.body.status = "placed"
            /\ Len(order') = Len(order) + 1
            /\ SubSeq(order', 1, Len(order)) = order
            /\ order'[Len(order')].total = sum
            /\ order'[Len(order')].items = req.items
            /\ order'[Len(order')].status = "placed"
            /\ last'.body.order_id = StrOfId(order'[Len(order')]._id)]_vars

\* C4: with the database configured, every checkout returns the sum of price
\* times quantity over the submitted items (client prices), status "placed",
\* and adds exactly one order with that total, those items in that order and
\* status "placed"; every stored order has total = sum(price * quantity).
C4_CheckoutTotal == []C4_Stored /\ C4_Step

\* the spec's example, prices in cents: 10.00 x 2 + 5.00 x 1 = 25.00
C4_Witness ==
    /\ last.op = "checkout" /\ last.status = 200
    /\ last.req.items = <<OrderItem(1000, 2), OrderItem(500, 1)>>
    /\ last.body.total = 2500
    /\ order # <<>> /\ order[Len(order)].total = 2500

\* C5: every stored product has price, rating and rating_count >= 0, and every
\* item of every stored order has price >= 0 and quantity >= 0.
C5_NonNegative ==
    /\ \A i \in DOMAIN product :
          /\ product[i].price >= 0
          /\ product[i].rating # None => product[i].rating[1] >= 0
          /\ product[i].rating_count # None => product[i].rating_count[1] >= 0
    /\ \A i \in DOMAIN order : \A k \in DOMAIN order[i].items :
          order[i].items[k].price >= 0 /\ order[i].items[k].quantity >= 0

CountBy(coll, field, value) == Cardinality({i \in DOMAIN coll : coll[i][field] = value})

SeededOnce ==
    /\ \A i \in DOMAIN base_categories :
          CountBy(category, "slug", base_categories[i].slug) = 1
    /\ \A i \in DOMAIN sample_products :
          CountBy(product, "title", sample_products[i].title) = 1
    /\ CountBy(user, "username", "demo") = 1

C6_Again == [][(last'.op = "seed" /\ Seed /\ seedRuns >= 1)
               => <<user, category, product>>' = <<user, category, product>>]_vars

C6_FromEmpty == (pristine /\ seedRuns >= 1) => SeededOnce

\* C6: a seed call that runs after a completed seed call inserts nothing and
\* changes no category, product or user; and seed calls run on an empty store
\* leave exactly one category per seeded slug, one product per seeded title
\* and one user "demo".
C6_SeedIdempotent == []C6_FromEmpty /\ C6_Again

\* two seed calls have run on a store nothing else wrote to
C6_Witness ==
    /\ pristine /\ seedRuns >= 2 /\ last.op = "seed" /\ last.status = 200
    /\ Len(category) = Len(base_categories)
    /\ Len(product) = Len(sample_products)
    /\ Len(user) = 1

\* a second seed call ran on a store where a product with a seeded title and
\* another category had been created by hand
C6_WitnessMixed ==
    /\ ~pristine /\ seedRuns >= 2 /\ last.op = "seed"
    /\ Len(product) > Len(sample_products)
    /\ Len(category) > Len(base_categories)

NoTwoShare(coll, field) ==
    \A i, j \in DOMAIN coll : coll[i][field] = coll[j][field] => i = j

C7_Unique == NoTwoShare(category, "slug")

C7_Step ==
    [][(Configured /\ last'.op = "createCategory" /\ CreateCategory(last'.req)) =>
        IF \E i \in DOMAIN category : category[i].slug = last'.req.slug
        THEN last'.status = 409 /\ category' = category
        ELSE /\ last'.status = 200
             /\ Len(category') = Len(category) + 1
             /\ SubSeq(category', 1, Len(category)) = category
             /\ category'[Len(category')].slug = last'.req.slug
             /\ category'[Len(category')].name = last'.req.name
             /\ last'.body.id = StrOfId(category'[Len(category')]._id)
             /\ \A i \in DOMAIN category :
                    category[i]._id # category'[Len(category')]._id]_vars

StoreOps ==
    {"signup", "login", "listCategories", "createCategory", "listProducts",
     "getProduct", "createProduct", "checkout", "seed"}

\* C8 as stated: without a database handle every endpoint that touches the
\* store answers 500.
C8_All500 == (db = None /\ last.op \in StoreOps) => last.status = 500

\* C8 as amended: without a database handle signup, login, createCategory,
\* createProduct, checkout and seed answer 500 "Database not configured"
\* whatever their input; listCategories and listProducts answer 200 with an
\* empty list; getProduct answers 400 for a malformed id and 404 otherwise.
C8_Unconfigured ==
    db = None =>
        /\ last.op \in {"signup", "login", "createCategory", "createProduct",
                        "checkout", "seed"}
              => last.status = 500 /\ last.body = [detail |-> "Database not configured"]
        /\ last.op \in {"listCategories", "listProducts"}
              => last.status = 200 /\ last.body = <<>>
        /\ last.op = "getProduct"
              => last.status = (IF IsObjectIdStr(last.req) THEN 404 ELSE 400)
        /\ store = <<<<>>, <<>>, <<>>, <<>>>>

\* a checkout with items, refused for want of a database
C8_Witness ==
    /\ db = None /\ last.op = "checkout" /\ last.status = 500
    /\ last.req.items # <<>>

Returned(req, body) ==
    /\ \A i \in DOMAIN body : body[i].category = req.category[1]
    /\ (req.q # None /\ req.q[1] # <<>>) =>
          \A i \in DOMAIN body :
              RegexI(Some(body[i].title), req.q[1])
              \/ RegexI(body[i].description, req.q[1])

\* C9 as stated: for every category c, limit n >= 0 and skip k >= 0,
\* listProducts returns at most n products, each of category c, and each
\* matching q when q is given.
C9_AtMostLimit ==
    (Configured /\ last.op = "listProducts" /\ last.req.category # None) =>
        Len(last.body) <= last.req.limit /\ Returned(last.req, last.body)

\* C9 as amended: for every non-empty category c, limit n >= 1 and skip k >= 0,
\* listProducts returns at most n products, each a stored product of category
\* c, and each matching q on title or description when a non-empty q is given.
C9_ListProducts ==
    (/\ Configured /\ last.op = "listProducts"
     /\ Truthy(last.req.category) /\ last.req.limit >= 1) =>
        /\ Len(last.body) <= last.req.limit
        /\ Returned(last.req, last.body)
        /\ \A i \in DOMAIN last.body :
              \E j \in DOMAIN product : last.body[i] = ToStrId(product[j])

\* the category holds more products than the limit lets through, and q
\* narrows them
C9_Witness ==
    /\ last.op = "listProducts" /\ last.status = 200
    /\ last.req.category = Some("Electronics") /\ last.req.limit = 1
    /\ last.req.q = Some(<<"desk", "STAND">>)
    /\ Len(last.body) = 1
    /\ Cardinality({i \in DOMAIN product : product[i].category = "Electronics"}) >= 3
    /\ \E i \in DOMAIN product : product[i].category # "Electronics"

\* C10: when each request runs atomically no two stored users share a
\* username and no two stored categories share a slug (two interleaved
\* requests reach such states, see C10_Witness).
C10_AtomicNoDuplicates ==
    serial => NoTwoShare(user, "username") /\ NoTwoShare(category, "slug")

\* interleaved: two signups with one username both passed the existence check
\* and both inserted
C10_Witness ==
    /\ ~serial
    /\ \E i, j \in DOMAIN user : i # j /\ user[i].username = user[j].username
    /\ \A w \in Workers : inflight[w] = Idle

\* interleaved: two stored categories share a slug
C10_WitnessSlug ==
    /\ ~serial
    /\ \E i, j \in DOMAIN category : i # j /\ category[i].slug = category[j].slug

====
